---- MODULE Spec2Model ----
(***************************************************************************)
(* A model of src/main.py: the webhook trigger with its seen-set dedup,    *)
(* the chunk job, and the embed job (readiness probe, bounded-concurrency  *)
(* embedding tasks, scratch file, publish).                                *)
(*                                                                         *)
(* Texts are sequences of one-character strings.  A dataset is a sequence  *)
(* of texts (the INPUT_TEXT_COL column of its rows).                       *)
(***************************************************************************)
EXTENDS Naturals, Sequences, FiniteSets

\* ------------------------------------------------------------------ bounds
\* notifications handled in one behaviour
MaxNotifs == 3
\* rows of a chunked dataset that is already published when an embed run starts
MaxChunks == 3
\* embed_config.semaphore_bound (configuration, read at main.py:168)
SemaphoreBound == 2
\* rows of an input dataset, characters of a row's text, and the largest
\* chunk_config.chunk_len, where the chunk job is run over every input
MaxRecords == 2
MaxTextLen == 3
MaxChunkLen == 2

\* ------------------------------------------------------- program constants
\* wake_up_endpoint: "if n_loop > 40" (main.py:189)
MaxLoops == 40
\* "resp.status != 200" (main.py:158), "status_code != 200" (main.py:186)
StatusOK == 200

\* --------------------------------------------------------------- the inputs
Shas == {"sha1", "sha2"}
EventActions == {"update", "create"}
\* scopes, as sequences of tokens; "repo.content" is RepoContent
RepoContent == <<"repo", ".content">>
Scopes == {<<"repo", ".content">>, <<"repo", ".content", ".x">>,
           <<"repo", ".config">>, <<"repo">>}
RepoTypes == {"dataset", "model"}
RepoNames == {"user/input"}
CHUNKED_DS_NAME == "user/chunked"
Statuses == {200, 503}
Whitespace == {" "}

Payloads ==
    [action : EventActions, scope : Scopes, type : RepoTypes,
     headSha : Shas, name : RepoNames]

\* the notifications of the full system: every one an update of the content
\* of a dataset, plus one that is not an update
UpdatePayloads ==
    {p \in Payloads : /\ p.scope = RepoContent
                      /\ p.type = "dataset"
                      /\ (p.action = "update" \/ p.headSha = "sha1")}

VARIABLES
    seen_Sha,      \* app.state.seen_Sha
    response,      \* what the last post_webhook call got and returned
    n_notif,       \* notifications handled so far
    eligible,      \* per headSha: handled notifications meeting the 3 conditions
    accepted,      \* per headSha: handled notifications answered processed=True
    runs,          \* one entry per BackgroundTasks object that holds tasks
    hub_chunked,   \* the published chunked dataset (its current version)
    hub_embedded,  \* the published embedded dataset (its current version)
    input_repo,    \* the rows of the input dataset
    chunk_config   \* models.chunk_config: strategy, split_seq, chunk_len

vars == <<seen_Sha, response, n_notif, eligible, accepted, runs,
          hub_chunked, hub_embedded, input_repo, chunk_config>>

\* ------------------------------------------------------------- small helpers
Min(a, b) == IF a < b THEN a ELSE b

RECURSIVE SeqsUpTo(_, _)
SeqsUpTo(S, n) ==
    IF n = 0 THEN {<<>>}
    ELSE LET shorter == SeqsUpTo(S, n - 1)
         IN  shorter \cup {Append(s, x) : s \in {t \in shorter : Len(t) = n - 1}, x \in S}

\* str.startswith
StartsWith(s, prefix) ==
    /\ Len(s) >= Len(prefix)
    /\ SubSeq(s, 1, Len(prefix)) = prefix

\* bool(text.strip()): some character is not whitespace
NonBlank(text) == \E i \in 1..Len(text) : text[i] \notin Whitespace


\* ---------------------------------------------------------------- chunking
\* a splitter that cuts at every character of split_seq
RECURSIVE seq_splitter_any_char(_, _)
seq_splitter_any_char(text, split_seq) ==
    LET hits == {i \in 1..Len(text) :
                    \E k \in DOMAIN split_seq : text[i] = split_seq[k]}
    IN  IF hits = {}
        THEN <<text>>
        ELSE LET i == CHOOSE h \in hits : \A g \in hits : h <= g
             IN  <<SubSeq(text, 1, i - 1)>>
                 \o seq_splitter_any_char(SubSeq(text, i + 1, Len(text)), split_seq)

\* Chunker.seq_splitter: text.split(self.split_seq), split_seq not empty
RECURSIVE seq_splitter(_, _)
seq_splitter(text, split_seq) ==
    LET n == Len(split_seq)
        hits == {i \in 1..(Len(text) - n + 1) : SubSeq(text, i, i + n - 1) = split_seq}
    IN  IF Len(text) < n \/ hits = {}
        THEN <<text>>
        ELSE LET i == CHOOSE h \in hits : \A g \in hits : h <= g
             IN  <<SubSeq(text, 1, i - 1)>>
                 \o seq_splitter(SubSeq(text, i + n, Len(text)), split_seq)

\* int(np.ceil(len(text) / self.chunk_len))
CeilDiv(a, b) == (a + b - 1) \div b

\* the windows counted with floor for ceil: the remainder is dropped
const_splitter_floor(text, chunk_len) ==
    [i \in 1..(Len(text) \div chunk_len) |->
        SubSeq(text, (i - 1) * chunk_len + 1, i * chunk_len)]

\* Chunker.const_splitter: the windows text[i*chunk_len:(i+1)*chunk_len]
const_splitter(text, chunk_len) ==
    [i \in 1..CeilDiv(Len(text), chunk_len) |->
        SubSeq(text, (i - 1) * chunk_len + 1, Min(i * chunk_len, Len(text)))]

\* Chunker.__init__ binds self.split for these strategies only
\* (the "recursive" strategy delegates to a library and is not modelled)
BoundStrategies == {"sequence", "constant"}

\* chunker.split(text)
split(cfg, text) ==
    IF cfg.strategy = "sequence" THEN seq_splitter(text, cfg.split_seq)
    ELSE const_splitter(text, cfg.chunk_len)

\* chunk_generator without its "if chunk"
NonEmptyOfAll(chunks) == chunks

\* the chunks a record yields: "if chunk: yield"
RECURSIVE NonEmptyOf(_)
NonEmptyOf(chunks) ==
    IF chunks = <<>> THEN <<>>
    ELSE (IF Head(chunks) # <<>> THEN <<Head(chunks)>> ELSE <<>>)
         \o NonEmptyOf(Tail(chunks))

\* chunk_generator, run to its end
RECURSIVE chunk_generator(_, _)
chunk_generator(input_dataset, cfg) ==
    IF input_dataset = <<>> THEN <<>>
    ELSE NonEmptyOf(split(cfg, Head(input_dataset)))
         \o chunk_generator(Tail(input_dataset), cfg)

\* chunker.split is called for the first record: it raises AttributeError
\* when no strategy bound it, ZeroDivisionError in const_splitter when
\* chunk_len is 0, ValueError in str.split when the separator is empty
SplitRaises(input_dataset, cfg) ==
    /\ input_dataset # <<>>
    /\ \/ cfg.strategy \notin BoundStrategies
       \/ cfg.strategy = "constant" /\ cfg.chunk_len = 0
       \/ cfg.strategy = "sequence" /\ cfg.split_seq = <<>>

\* ------------------------------------------------------------- the trigger
\* the condition without its headSha conjunct
ShouldProcessNoDedup(p, seen) ==
    /\ p.action = "update"
    /\ StartsWith(p.scope, RepoContent)
    /\ p.type = "dataset"

\* the condition with scope == "repo.content" for startswith
ShouldProcessExactScope(p, seen) ==
    /\ p.action = "update"
    /\ p.scope = RepoContent
    /\ p.type = "dataset"
    /\ p.headSha \notin seen

\* the condition of post_webhook's "if not (...)", negated
ShouldProcess(p, seen) ==
    /\ p.action = "update"
    /\ StartsWith(p.scope, RepoContent)
    /\ p.type = "dataset"
    /\ p.headSha \notin seen

\* the two add_task calls in the other order
ScheduledTasksEmbedFirst(p) ==
    <<[fn |-> "embed_dataset", ds_name |-> CHUNKED_DS_NAME],
      [fn |-> "chunk_dataset", ds_name |-> p.name]>>

\* task_queue after the two add_task calls
ScheduledTasks(p) ==
    <<[fn |-> "chunk_dataset", ds_name |-> p.name],
      [fn |-> "embed_dataset", ds_name |-> CHUNKED_DS_NAME]>>

\* embed_dataset without its wake_up_endpoint call
PcOfNoProbe(tasks, cur) ==
    IF cur > Len(tasks) THEN "done"
    ELSE IF tasks[cur].fn = "chunk_dataset" THEN "chunk"
    ELSE "load"

\* where a BackgroundTasks object stands when it is to call tasks[cur]
PcOf(tasks, cur) ==
    IF cur > Len(tasks) THEN "done"
    ELSE IF tasks[cur].fn = "chunk_dataset" THEN "chunk"
    ELSE "probe"

\* a BackgroundTasks object with its tasks, none of them started
NewRun(sha, tasks) ==
    [sha |-> sha, tasks |-> tasks, cur |-> 1, pc |-> PcOf(tasks, 1), err |-> "none",
     chunk_pushes |-> 0, chunk_version |-> 0, loaded_version |-> 0,
     n_loop |-> 0, n_get |-> 0, n_sleep |-> 0, ready |-> FALSE, loaded |-> FALSE,
     input_ds |-> <<>>, jobs |-> <<>>, sem |-> 0, posts |-> <<>>,
     tmp_created |-> FALSE, tmp_exists |-> FALSE, tmp_lines |-> <<>>,
     dataset |-> <<>>, pushed |-> <<>>, embed_pushes |-> 0]

\* the handler with the headSha recorded ahead of the other three conditions
post_webhook_record_first(p) ==
    /\ n_notif < MaxNotifs
    /\ n_notif' = n_notif + 1
    /\ eligible' = [eligible EXCEPT ![p.headSha] =
                        IF /\ p.action = "update"
                           /\ StartsWith(p.scope, RepoContent)
                           /\ p.type = "dataset"
                        THEN @ + 1 ELSE @]
    /\ seen_Sha' = seen_Sha \cup {p.headSha}
    /\ IF ~ShouldProcess(p, seen_Sha)
       THEN /\ response' = [payload |-> p, processed |-> FALSE]
            /\ UNCHANGED <<runs, accepted>>
       ELSE /\ runs' = Append(runs, NewRun(p.headSha, ScheduledTasks(p)))
            /\ accepted' = [accepted EXCEPT ![p.headSha] = @ + 1]
            /\ response' = [payload |-> p, processed |-> TRUE]
    /\ UNCHANGED <<hub_chunked, hub_embedded, input_repo, chunk_config>>

\* the handler without "app.state.seen_Sha.add"
post_webhook_no_record(p) ==
    /\ n_notif < MaxNotifs
    /\ n_notif' = n_notif + 1
    /\ eligible' = [eligible EXCEPT ![p.headSha] =
                        IF /\ p.action = "update"
                           /\ StartsWith(p.scope, RepoContent)
                           /\ p.type = "dataset"
                        THEN @ + 1 ELSE @]
    /\ IF ~ShouldProcess(p, seen_Sha)
       THEN /\ response' = [payload |-> p, processed |-> FALSE]
            /\ UNCHANGED <<seen_Sha, runs, accepted>>
       ELSE /\ UNCHANGED seen_Sha
            /\ runs' = Append(runs, NewRun(p.headSha, ScheduledTasks(p)))
            /\ accepted' = [accepted EXCEPT ![p.headSha] = @ + 1]
            /\ response' = [payload |-> p, processed |-> TRUE]
    /\ UNCHANGED <<hub_chunked, hub_embedded, input_repo, chunk_config>>

\* post_webhook: the handler has no await, so the event loop runs it whole
post_webhook(p) ==
    /\ n_notif < MaxNotifs
    /\ n_notif' = n_notif + 1
    /\ eligible' = [eligible EXCEPT ![p.headSha] =
                        IF /\ p.action = "update"
                           /\ StartsWith(p.scope, RepoContent)
                           /\ p.type = "dataset"
                        THEN @ + 1 ELSE @]
    /\ IF ~ShouldProcess(p, seen_Sha)
       THEN /\ response' = [payload |-> p, processed |-> FALSE]
            /\ UNCHANGED <<seen_Sha, runs, accepted>>
       ELSE /\ seen_Sha' = seen_Sha \cup {p.headSha}
            /\ runs' = Append(runs, NewRun(p.headSha, ScheduledTasks(p)))
            /\ accepted' = [accepted EXCEPT ![p.headSha] = @ + 1]
            /\ response' = [payload |-> p, processed |-> TRUE]
    /\ UNCHANGED <<hub_chunked, hub_embedded, input_repo, chunk_config>>

NoResponse == [payload |-> "none", processed |-> FALSE]

InitTrigger ==
    /\ seen_Sha = {}
    /\ response = NoResponse
    /\ n_notif = 0
    /\ eligible = [h \in Shas |-> 0]
    /\ accepted = [h \in Shas |-> 0]
    /\ runs = <<>>
    /\ hub_chunked = <<>>
    /\ hub_embedded = <<>>
    /\ input_repo = <<>>
    /\ chunk_config = [strategy |-> "constant", split_seq |-> <<".">>, chunk_len |-> 1]

NextTrigger == \E p \in Payloads : post_webhook(p)

\* the handler alone, over every payload
SpecTrigger == InitTrigger /\ [][NextTrigger]_vars

\* ------------------------------------------------------ background jobs
\* Starlette's BackgroundTasks calls its tasks in order, each sync function
\* in a worker thread; a task that raises ends the object's loop.  Objects
\* of different requests run side by side.
Fail(run, err) == [run EXCEPT !.pc = "failed", !.err = err]

Returned(run) ==
    [run EXCEPT !.cur = @ + 1, !.pc = PcOf(run.tasks, run.cur + 1)]

SetRun(r, run) == runs' = [runs EXCEPT ![r] = run]

\* the version of the published chunked dataset: every push_to_hub of a
\* chunk run makes a new one (chunk_version: the one a run made,
\* loaded_version: the one its embed job loaded)
ChunkedVersion == Cardinality({r \in DOMAIN runs : runs[r].chunk_version > 0})

TriggerUnchanged == UNCHANGED <<seen_Sha, response, n_notif, eligible, accepted>>
ConfigUnchanged == UNCHANGED <<input_repo, chunk_config>>

\* a chunk job that publishes what was generated before split raised
chunk_dataset_publish_partial(r, outcome) ==
    /\ runs[r].pc = "chunk"
    /\ LET run == runs[r]
           input_ds == input_repo
       IN  IF outcome = "load_error"
           THEN SetRun(r, Fail(run, "chunk_load")) /\ UNCHANGED hub_chunked
           ELSE IF SplitRaises(input_ds, chunk_config)
           THEN /\ hub_chunked' = <<>>
                /\ SetRun(r, Fail([run EXCEPT !.chunk_pushes = @ + 1], "split"))
           ELSE IF outcome = "push_error"
           THEN /\ SetRun(r, Fail([run EXCEPT !.chunk_pushes = @ + 1], "chunk_push"))
                /\ UNCHANGED hub_chunked
           ELSE /\ hub_chunked' = chunk_generator(input_ds, chunk_config)
                /\ SetRun(r, Returned([run EXCEPT !.chunk_pushes = @ + 1]))
    /\ UNCHANGED hub_embedded
    /\ TriggerUnchanged /\ ConfigUnchanged

\* chunk_dataset, from load_dataset to its return
chunk_dataset(r, outcome) ==
    /\ runs[r].pc = "chunk"
    /\ LET run == runs[r]
           input_ds == input_repo
       IN  IF outcome = "load_error"
           THEN SetRun(r, Fail(run, "chunk_load")) /\ UNCHANGED hub_chunked
           ELSE IF SplitRaises(input_ds, chunk_config)
           THEN SetRun(r, Fail(run, "split")) /\ UNCHANGED hub_chunked
           ELSE IF outcome = "push_error"
           THEN /\ SetRun(r, Fail([run EXCEPT !.chunk_pushes = @ + 1], "chunk_push"))
                /\ UNCHANGED hub_chunked
           ELSE /\ hub_chunked' = chunk_generator(input_ds, chunk_config)
                /\ SetRun(r, Returned([run EXCEPT !.chunk_pushes = @ + 1,
                                                  !.chunk_version = ChunkedVersion + 1]))
    /\ UNCHANGED hub_embedded
    /\ TriggerUnchanged /\ ConfigUnchanged

\* --------------------------------------------------------------- embedding
\* the probe with time.sleep(2) ahead of the status test
wake_up_endpoint_sleep_first(r, status_code) ==
    /\ runs[r].pc = "probe"
    /\ LET run == [runs[r] EXCEPT !.n_get = @ + 1, !.n_sleep = @ + 1]
       IN  IF status_code # StatusOK
           THEN LET slept == [run EXCEPT !.n_loop = @ + 1]
                IN  IF slept.n_loop > MaxLoops
                    THEN SetRun(r, Fail(slept, "timeout"))
                    ELSE SetRun(r, slept)
           ELSE SetRun(r, [run EXCEPT !.ready = TRUE, !.pc = "load"])
    /\ UNCHANGED <<hub_chunked, hub_embedded>>
    /\ TriggerUnchanged /\ ConfigUnchanged

\* wake_up_endpoint: one evaluation of the while condition (a GET) and, when
\* the status is not 200, the loop body (n_sleep counts the time.sleep calls)
wake_up_endpoint(r, status_code) ==
    /\ runs[r].pc = "probe"
    /\ LET run == [runs[r] EXCEPT !.n_get = @ + 1]
       IN  IF status_code # StatusOK
           THEN LET slept == [run EXCEPT !.n_sleep = @ + 1, !.n_loop = @ + 1]
                IN  IF slept.n_loop > MaxLoops
                    THEN SetRun(r, Fail(slept, "timeout"))
                    ELSE SetRun(r, slept)
           ELSE SetRun(r, [run EXCEPT !.ready = TRUE, !.pc = "load"])
    /\ UNCHANGED <<hub_chunked, hub_embedded>>
    /\ TriggerUnchanged /\ ConfigUnchanged

\* embed_dataset: load_dataset(ds_name, split="train"); the probe's frame is gone
load_dataset(r, outcome) ==
    /\ runs[r].pc = "load"
    /\ LET run == [runs[r] EXCEPT !.n_loop = 0, !.n_get = 0, !.n_sleep = 0]
       IN  IF outcome = "load_error"
           THEN SetRun(r, Fail(run, "load"))
           ELSE SetRun(r, [run EXCEPT !.input_ds = hub_chunked, !.loaded = TRUE,
                                      !.loaded_version = ChunkedVersion,
                                      !.pc = "open"])
    /\ UNCHANGED <<hub_chunked, hub_embedded>>
    /\ TriggerUnchanged /\ ConfigUnchanged

\* embed without the "if row[INPUT_TEXT_COL].strip()" filter
CreateJobsAll(input_ds) == [i \in 1..Len(input_ds) |-> "wait"]

\* embed: one task per row whose text is not blank
CreateJobs(input_ds) ==
    [i \in 1..Len(input_ds) |-> IF NonBlank(input_ds[i]) THEN "wait" ELSE "none"]

\* embed_dataset enters "with NamedTemporaryFile", asyncio.run starts embed:
\* the semaphore and the tasks are created
open_tmp(r) ==
    /\ runs[r].pc = "open"
    /\ SetRun(r, [runs[r] EXCEPT !.tmp_created = TRUE, !.tmp_exists = TRUE,
                                 !.tmp_lines = <<>>,
                                 !.sem = SemaphoreBound,
                                 !.jobs = CreateJobs(runs[r].input_ds),
                                 !.posts = [i \in 1..Len(runs[r].input_ds) |-> 0],
                                 !.pc = "embed"])
    /\ UNCHANGED <<hub_chunked, hub_embedded>>
    /\ TriggerUnchanged /\ ConfigUnchanged

\* a temporary file made with delete=False
CloseTmpKeep(run) == run

\* the with block is left: the file is closed, and closing deletes it
CloseTmp(run) == [run EXCEPT !.tmp_exists = FALSE]

\* a semaphore that never blocks
CanAcquireAlways(run) == TRUE

\* "async with semaphore": a task may enter when the value is positive
CanAcquire(run) == run.sem > 0

\* embed_sent up to session.post: the semaphore is taken in creation order
\* (the tasks start in the order created, and waiters are woken first-in
\* first-out), then the POST is sent
acquire(r, i) ==
    /\ runs[r].pc = "embed"
    /\ runs[r].jobs[i] = "wait"
    /\ \A j \in 1..(i - 1) : runs[r].jobs[j] # "wait"
    /\ CanAcquire(runs[r])
    /\ SetRun(r, [runs[r] EXCEPT !.sem = @ - 1, !.jobs[i] = "post",
                                 !.posts[i] = @ + 1])
    /\ UNCHANGED <<hub_chunked, hub_embedded>>
    /\ TriggerUnchanged /\ ConfigUnchanged

\* result[0] of the endpoint's answer for a text
Vector(text) == <<"embedding", text>>

\* the line embed_sent writes for row i (chunk: the row it comes from)
Line(run, i) ==
    [vector |-> Vector(run.input_ds[i]), text |-> run.input_ds[i], chunk |-> i]

\* embed_sent with a retry: a status other than 200 sends the task back to
\* wait for the semaphore and POST again
respond_retry(r, i, status) ==
    /\ runs[r].pc = "embed"
    /\ runs[r].jobs[i] = "post"
    /\ IF status # StatusOK
       THEN SetRun(r, [runs[r] EXCEPT !.jobs[i] = IF runs[r].posts[i] < 2
                                                  THEN "wait" ELSE "raised",
                                      !.sem = @ + 1])
       ELSE SetRun(r, [runs[r] EXCEPT !.jobs[i] = "done", !.sem = @ + 1,
                                      !.tmp_lines = Append(@, Line(runs[r], i))])
    /\ UNCHANGED <<hub_chunked, hub_embedded>>
    /\ TriggerUnchanged /\ ConfigUnchanged

\* the task leaves "async with semaphore" without the release
respond_no_release(r, i, status) ==
    /\ runs[r].pc = "embed"
    /\ runs[r].jobs[i] = "post"
    /\ IF status # StatusOK
       THEN SetRun(r, [runs[r] EXCEPT !.jobs[i] = "raised"])
       ELSE SetRun(r, [runs[r] EXCEPT !.jobs[i] = "done",
                                      !.tmp_lines = Append(@, Line(runs[r], i))])
    /\ UNCHANGED <<hub_chunked, hub_embedded>>
    /\ TriggerUnchanged /\ ConfigUnchanged

\* embed_sent from the response on: raise on a status other than 200, else
\* write the line; either way the semaphore is released on leaving
respond(r, i, status) ==
    /\ runs[r].pc = "embed"
    /\ runs[r].jobs[i] = "post"
    /\ IF status # StatusOK
       THEN SetRun(r, [runs[r] EXCEPT !.jobs[i] = "raised", !.sem = @ + 1])
       ELSE SetRun(r, [runs[r] EXCEPT !.jobs[i] = "done", !.sem = @ + 1,
                                      !.tmp_lines = Append(@, Line(runs[r], i))])
    /\ UNCHANGED <<hub_chunked, hub_embedded>>
    /\ TriggerUnchanged /\ ConfigUnchanged

InFlightOf(run) == {i \in DOMAIN run.jobs : run.jobs[i] = "post"}

\* gather re-raises a task's exception
GatherFails(run) == \E i \in DOMAIN run.jobs : run.jobs[i] = "raised"

\* gather(..., return_exceptions=True): a raised task counts as finished
GatherReturnsSettled(run) ==
    \A i \in DOMAIN run.jobs : run.jobs[i] \in {"none", "done", "raised"}

\* gather returns when every task has finished
GatherReturns(run) ==
    \A i \in DOMAIN run.jobs : run.jobs[i] \in {"none", "done"}

\* embed raises out of gather: asyncio.run cancels the tasks left (one that
\* holds the semaphore releases it), the with block is left by the exception
gather_raise(r) ==
    /\ runs[r].pc = "embed"
    /\ GatherFails(runs[r])
    /\ LET run == runs[r]
           cancelled == [i \in DOMAIN run.jobs |->
                            IF run.jobs[i] \in {"wait", "post"} THEN "cancelled"
                            ELSE run.jobs[i]]
       IN  SetRun(r, Fail(CloseTmp([run EXCEPT
                              !.jobs = cancelled,
                              !.sem = @ + Cardinality(InFlightOf(run))]), "task"))
    /\ UNCHANGED <<hub_chunked, hub_embedded>>
    /\ TriggerUnchanged /\ ConfigUnchanged

\* embed returns
gather_return(r) ==
    /\ runs[r].pc = "embed"
    /\ GatherReturns(runs[r])
    /\ SetRun(r, [runs[r] EXCEPT !.pc = "read"])
    /\ UNCHANGED <<hub_chunked, hub_embedded>>
    /\ TriggerUnchanged /\ ConfigUnchanged

\* what a reader that opens the file by name may find: tmp_file is never
\* flushed, so the lines still in its buffers are missing: the first n lines
OnDisk(run, n) == SubSeq(run.tmp_lines, 1, n)

\* Dataset.from_json(temp_file.name)
from_json(r, n, outcome) ==
    /\ runs[r].pc = "read"
    /\ IF outcome = "read_error"
       THEN SetRun(r, Fail(CloseTmp(runs[r]), "read"))
       ELSE SetRun(r, [runs[r] EXCEPT !.dataset = OnDisk(runs[r], n), !.pc = "push"])
    /\ UNCHANGED <<hub_chunked, hub_embedded>>
    /\ TriggerUnchanged /\ ConfigUnchanged

\* dataset.push_to_hub(EMBED_DS_NAME), then the with block is left
push_to_hub(r, outcome) ==
    /\ runs[r].pc = "push"
    /\ LET run == [runs[r] EXCEPT !.embed_pushes = @ + 1]
       IN  IF outcome = "push_error"
           THEN /\ SetRun(r, Fail(CloseTmp(run), "push"))
                /\ UNCHANGED hub_embedded
           ELSE /\ hub_embedded' = run.dataset
                /\ SetRun(r, Returned(CloseTmp([run EXCEPT !.pushed = run.dataset])))
    /\ UNCHANGED hub_chunked
    /\ TriggerUnchanged /\ ConfigUnchanged

\* ----------------------------------------------------- the specifications
ChunkTexts == {<<"a">>, <<"b">>, <<" ">>, <<>>}

\* one embed_dataset call, as the only task of its BackgroundTasks object
EmbedOnly == <<[fn |-> "embed_dataset", ds_name |-> CHUNKED_DS_NAME]>>

InitEmbed ==
    /\ seen_Sha = {"sha1"}
    /\ response = NoResponse
    /\ n_notif = 0
    /\ eligible = [h \in Shas |-> 0]
    /\ accepted = [h \in Shas |-> 0]
    /\ runs = <<NewRun("sha1", EmbedOnly)>>
    /\ hub_chunked \in SeqsUpTo(ChunkTexts, MaxChunks)
    /\ hub_embedded = <<>>
    /\ input_repo = <<>>
    /\ chunk_config = [strategy |-> "constant", split_seq |-> <<".">>, chunk_len |-> 1]

NextEmbed ==
    \/ \E r \in DOMAIN runs, status_code \in Statuses : wake_up_endpoint(r, status_code)
    \/ \E r \in DOMAIN runs, outcome \in {"ok", "load_error"} : load_dataset(r, outcome)
    \/ \E r \in DOMAIN runs : open_tmp(r)
    \/ \E r \in DOMAIN runs : \E i \in DOMAIN runs[r].jobs : acquire(r, i)
    \/ \E r \in DOMAIN runs : \E i \in DOMAIN runs[r].jobs, status \in Statuses :
          respond(r, i, status)
    \/ \E r \in DOMAIN runs : gather_raise(r)
    \/ \E r \in DOMAIN runs : gather_return(r)
    \/ \E r \in DOMAIN runs : \E n \in 0..Len(runs[r].tmp_lines),
                                 outcome \in {"ok", "read_error"} :
          from_json(r, n, outcome)
    \/ \E r \in DOMAIN runs, outcome \in {"ok", "push_error"} : push_to_hub(r, outcome)

\* one embed run over a published chunked dataset
SpecEmbed == InitEmbed /\ [][NextEmbed]_vars

\* the same run when the worker thread and its event loop keep running and
\* every request sent is answered: a step that can be taken is taken
SpecEmbedFair == InitEmbed /\ [][NextEmbed]_vars /\ WF_vars(NextEmbed)

ChunkSetups ==
    {[config |-> [strategy |-> "constant", split_seq |-> <<".">>, chunk_len |-> 1],
      input  |-> << <<"a", "b">> >>],
     [config |-> [strategy |-> "sequence", split_seq |-> <<".">>, chunk_len |-> 1],
      input  |-> << <<"a", ".", " ">> >>],
     [config |-> [strategy |-> "bogus", split_seq |-> <<".">>, chunk_len |-> 1],
      input  |-> << <<"a">> >>]}

Init ==
    /\ seen_Sha = {}
    /\ response = NoResponse
    /\ n_notif = 0
    /\ eligible = [h \in Shas |-> 0]
    /\ accepted = [h \in Shas |-> 0]
    /\ runs = <<>>
    /\ hub_chunked = <<>>
    /\ hub_embedded = <<>>
    /\ \E setup \in ChunkSetups :
          input_repo = setup.input /\ chunk_config = setup.config

Next ==
    \/ \E p \in UpdatePayloads : post_webhook(p)
    \/ \E r \in DOMAIN runs, outcome \in {"ok", "load_error", "push_error"} :
          chunk_dataset(r, outcome)
    \/ NextEmbed

\* the service: notifications, and the jobs they schedule
Spec == Init /\ [][Next]_vars

\* the characters of an input text, and the separators of chunk_config
Alphabet == {"a", "."}
Texts == SeqsUpTo(Alphabet, MaxTextLen)
Separators == {<<>>, <<".">>, <<".", ".">>}

ChunkConfigs ==
    {[strategy |-> "constant", split_seq |-> <<".">>, chunk_len |-> n] :
        n \in 0..MaxChunkLen}
    \cup {[strategy |-> "sequence", split_seq |-> sep, chunk_len |-> 1] :
              sep \in Separators}
    \cup {[strategy |-> "bogus", split_seq |-> <<".">>, chunk_len |-> 1]}

\* the input ["ab", "", "cd"], chunked by the constant strategy at length 1
ScenarioInput == << <<"a", "b">>, <<>>, <<"c", "d">> >>
ScenarioConfig == [strategy |-> "constant", split_seq |-> <<".">>, chunk_len |-> 1]

\* the chunked dataset published before the run
PreviousChunked == << <<"o", "l", "d">> >>

\* one chunk_dataset call, as the only task of its BackgroundTasks object
ChunkOnly == <<[fn |-> "chunk_dataset", ds_name |-> "user/input"]>>

InitChunk ==
    /\ seen_Sha = {"sha1"}
    /\ response = NoResponse
    /\ n_notif = 0
    /\ eligible = [h \in Shas |-> 0]
    /\ accepted = [h \in Shas |-> 0]
    /\ runs = <<NewRun("sha1", ChunkOnly)>>
    /\ hub_chunked = PreviousChunked
    /\ hub_embedded = <<>>
    /\ \/ /\ input_repo \in SeqsUpTo(Texts, MaxRecords)
          /\ chunk_config \in ChunkConfigs
       \/ /\ input_repo = ScenarioInput
          /\ chunk_config = ScenarioConfig

NextChunk ==
    \E r \in DOMAIN runs, outcome \in {"ok", "load_error", "push_error"} :
        chunk_dataset(r, outcome)

\* one chunk run over every input dataset and chunk configuration
SpecChunk == InitChunk /\ [][NextChunk]_vars

\* ------------------------------------------------------------------ claims
\* the three conditions of a notification that do not read the seen set
MeetsThree(p) ==
    /\ p.action = "update"
    /\ \E k \in 0..Len(p.scope) : SubSeq(p.scope, 1, k) = RepoContent
    /\ p.type = "dataset"

RunsOf(h) == {r \in DOMAIN runs : runs[r].sha = h}

\* C1: among the handled notifications that carry one headSha and meet the
\* other three conditions, exactly one was answered processed=True, and the
\* chunk job and the embed job were scheduled exactly once for that headSha.
C1_ExactlyOnePerSha ==
    \A h \in Shas :
        eligible[h] >= 1 =>
            /\ accepted[h] = 1
            /\ Cardinality(RunsOf(h)) = 1
            /\ \A r \in RunsOf(h) :
                  /\ Len(runs[r].tasks) = 2
                  /\ runs[r].tasks[1].fn = "chunk_dataset"
                  /\ runs[r].tasks[2].fn = "embed_dataset"

\* three notifications of one headSha, its jobs already past chunking
C1_Witness ==
    \E h \in Shas :
        /\ eligible[h] = 3
        /\ accepted[h] = 1
        /\ \E r \in RunsOf(h) : runs[r].pc = "embed"

\* C2: a call returns processed=True exactly when the notification meets the
\* three conditions and its headSha was not in the seen set at the call; and
\* then the headSha is in the seen set and the chunk job, then the embed
\* job, have been added to the task queue.
C2_TrueIffAllFour ==
    [][n_notif' = n_notif + 1 =>
        LET p == response'.payload
        IN  /\ response'.processed <=> (MeetsThree(p) /\ p.headSha \notin seen_Sha)
            /\ response'.processed =>
                  /\ p.headSha \in seen_Sha'
                  /\ Len(runs') = Len(runs) + 1
                  /\ SubSeq(runs', 1, Len(runs)) = runs
                  /\ runs'[Len(runs')].tasks =
                        <<[fn |-> "chunk_dataset", ds_name |-> p.name],
                          [fn |-> "embed_dataset", ds_name |-> CHUNKED_DS_NAME]>>
                  /\ runs'[Len(runs')].cur = 1
    ]_vars

\* a notification whose scope only starts with "repo.content" was accepted
\* while another headSha was already in the seen set
C2_Witness ==
    /\ response.processed
    /\ response.payload.scope # RepoContent
    /\ seen_Sha = Shas

\* C3: a call that returns processed=False leaves the seen set as it was and
\* schedules no job.
C3_FalseHasNoEffect ==
    [][(n_notif' = n_notif + 1 /\ ~response'.processed) =>
        /\ seen_Sha' = seen_Sha
        /\ runs' = runs
    ]_vars

\* a notification that is not an update was answered False, its headSha
\* not in the seen set
C3_Witness ==
    /\ n_notif >= 1
    /\ ~response.processed
    /\ response.payload.action # "update"
    /\ response.payload.headSha \notin seen_Sha
    /\ seen_Sha # {}

\* the tasks of a run that hold the semaphore: their POST is in flight
Posting(run) == {i \in DOMAIN run.jobs : run.jobs[i] = "post"}

\* C4: in one embed run at most SemaphoreBound tasks are between acquiring
\* and releasing the semaphore, and a task sends its request only from a
\* state in which fewer than SemaphoreBound are in flight.
C4_BoundPerRun ==
    /\ [](\A r \in DOMAIN runs : Cardinality(Posting(runs[r])) <= SemaphoreBound)
    /\ [][\A r \in DOMAIN runs :
            \A i \in DOMAIN runs[r].jobs :
                (i \in DOMAIN runs'[r].jobs
                 /\ runs[r].jobs[i] = "wait" /\ runs'[r].jobs[i] = "post")
                => Cardinality(Posting(runs[r])) < SemaphoreBound]_vars

\* the bound is reached and a task is waiting
C4_Witness ==
    \E r \in DOMAIN runs :
        /\ Cardinality(Posting(runs[r])) = SemaphoreBound
        /\ \E i \in DOMAIN runs[r].jobs : runs[r].jobs[i] = "wait"

\* C5: at no instant are more than SemaphoreBound embedding requests in
\* flight in the process, all embed runs taken together.
C5_BoundPerProcess ==
    Cardinality(UNION {{<<r, i>> : i \in Posting(runs[r])} : r \in DOMAIN runs})
        <= SemaphoreBound

Raised(run) == \E i \in DOMAIN run.jobs : run.jobs[i] = "raised"

\* C6: once a task of an embed run has raised, the run never gets past the
\* gather (it fails), push_to_hub is not called in it and nothing is
\* published.
C6_NoPublishAfterRaise ==
    \A r \in DOMAIN runs :
        Raised(runs[r]) =>
            /\ runs[r].pc \in {"embed", "failed"}
            /\ runs[r].embed_pushes = 0
            /\ runs[r].pushed = <<>>
            /\ hub_embedded = <<>>

\* a run failed by a raising task after another task had written its line
C6_Witness ==
    \E r \in DOMAIN runs :
        /\ Raised(runs[r])
        /\ runs[r].pc = "failed"
        /\ runs[r].err = "task"
        /\ runs[r].tmp_lines # <<>>

\* C7: a run that ends with its publish done has published exactly one row
\* for each non-blank chunk of the dataset it loaded, and no other row.
C7_PublishesEveryRow ==
    \A r \in DOMAIN runs :
        (runs[r].pc = "done" /\ runs[r].embed_pushes = 1) =>
            /\ \A i \in DOMAIN runs[r].input_ds :
                  Cardinality({k \in DOMAIN runs[r].pushed :
                                  runs[r].pushed[k].chunk = i})
                      = IF NonBlank(runs[r].input_ds[i]) THEN 1 ELSE 0
            /\ \A k \in DOMAIN runs[r].pushed :
                  /\ runs[r].pushed[k].chunk \in DOMAIN runs[r].input_ds
                  /\ runs[r].pushed[k].text = runs[r].input_ds[runs[r].pushed[k].chunk]

Ended(run) == run.pc \in {"done", "failed"}

\* C8: when an embed run has ended, on whichever path, its scratch file
\* does not exist; a run that failed in the probe or in the load never
\* created one.
C8_ScratchFileGone ==
    \A r \in DOMAIN runs :
        /\ Ended(runs[r]) => ~runs[r].tmp_exists
        /\ (runs[r].pc = "failed" /\ runs[r].err \in {"timeout", "load"})
              => ~runs[r].tmp_created

\* a run that failed while reading the file back, after lines were written
C8_Witness ==
    \E r \in DOMAIN runs :
        /\ runs[r].pc = "failed"
        /\ runs[r].err = "read"
        /\ runs[r].tmp_created
        /\ runs[r].tmp_lines # <<>>
        /\ ~runs[r].tmp_exists

\* C9: a run has sent no POST unless its probe saw a 200; a run whose
\* probe timed out has loaded nothing, sent no POST, created no scratch
\* file and published nothing.
C9_ProbeFirst ==
    \A r \in DOMAIN runs :
        /\ (\E i \in DOMAIN runs[r].posts : runs[r].posts[i] > 0) => runs[r].ready
        /\ runs[r].err = "timeout" =>
              /\ runs[r].pc = "failed"
              /\ ~runs[r].ready
              /\ ~runs[r].loaded
              /\ runs[r].jobs = <<>>
              /\ runs[r].posts = <<>>
              /\ ~runs[r].tmp_created
              /\ runs[r].embed_pushes = 0

\* a probe that timed out
C9_Witness ==
    \E r \in DOMAIN runs :
        /\ runs[r].err = "timeout"
        /\ runs[r].n_get > 0

\* C10: one call of the probe sends at most 40 GET requests.
C10_AtMost40Gets ==
    \A r \in DOMAIN runs : runs[r].n_get <= MaxLoops

\* C11: a probe that has returned did so on the first GET answered 200: it
\* sent k GETs and slept k-1 times, and raised nothing; TimeoutError is
\* raised only after more than 40 GETs have all failed, so a first success
\* on poll k <= 40 is always reached.
C11_ReturnsOnKthPoll ==
    \A r \in DOMAIN runs :
        /\ runs[r].pc = "load" =>
              /\ runs[r].ready
              /\ runs[r].err = "none"
              /\ runs[r].n_get >= 1
              /\ runs[r].n_sleep = runs[r].n_get - 1
        /\ runs[r].err = "timeout" =>
              /\ runs[r].n_get > MaxLoops
              /\ runs[r].n_sleep = runs[r].n_get

\* the spec's scenario: success on the 3rd poll, after 2 failures
C11_Witness ==
    \E r \in DOMAIN runs :
        /\ runs[r].pc = "load"
        /\ runs[r].n_get = 3
        /\ runs[r].n_sleep = 2

\* a text that is empty or holds spaces only
Blank(text) == \A k \in 1..Len(text) : text[k] = " "

RECURSIVE SumSeq(_)
SumSeq(q) == IF q = <<>> THEN 0 ELSE Head(q) + SumSeq(Tail(q))

\* C12: in an embed run a blank chunk gets no task and no POST; when the
\* gather has returned (every POST answered 200) the number of POSTs sent is
\* the number of non-blank chunks of the loaded dataset.
C12_BlankNeverEmbedded ==
    \A r \in DOMAIN runs :
        /\ \A i \in DOMAIN runs[r].jobs :
              Blank(runs[r].input_ds[i]) =>
                  (runs[r].jobs[i] = "none" /\ runs[r].posts[i] = 0)
        /\ runs[r].pc \in {"read", "push", "done"} =>
              SumSeq(runs[r].posts) =
                  Cardinality({i \in DOMAIN runs[r].input_ds :
                                  ~Blank(runs[r].input_ds[i])})

\* the gather returned for a dataset with an empty, a whitespace and a
\* non-blank chunk
C12_Witness ==
    \E r \in DOMAIN runs :
        /\ runs[r].pc = "read"
        /\ \E i, j, k \in DOMAIN runs[r].input_ds :
              /\ runs[r].input_ds[i] = <<>>
              /\ runs[r].input_ds[j] = <<" ">>
              /\ ~Blank(runs[r].input_ds[k])
        /\ SumSeq(runs[r].posts) = 1

LinesOf(run, i) == {k \in DOMAIN run.tmp_lines : run.tmp_lines[k].chunk = i}

\* C18: in an embed run every chunk is POSTed at most once; a task whose
\* POST got a status other than 200 has raised after that one request and
\* has written no line.
C18_NoRetry ==
    \A r \in DOMAIN runs :
        \A i \in DOMAIN runs[r].jobs :
            /\ runs[r].posts[i] <= 1
            /\ Cardinality(LinesOf(runs[r], i)) <= runs[r].posts[i]
            /\ runs[r].jobs[i] = "raised" =>
                  (runs[r].posts[i] = 1 /\ LinesOf(runs[r], i) = {})

\* a task has raised, the semaphore is free again and another task waits
C18_Witness ==
    \E r \in DOMAIN runs :
        /\ runs[r].pc = "embed"
        /\ \E i, j \in DOMAIN runs[r].jobs :
              /\ runs[r].jobs[i] = "raised"
              /\ runs[r].jobs[j] = "wait"
        /\ runs[r].sem > 0

\* the run of SpecEmbed and SpecEmbedFair
EmbedRun == runs[1]

\* C20: when an embed run has ended, on whichever path, no task holds the
\* semaphore (its value is back at the bound); and a run whose tasks have
\* been created reaches the read-back and publish step unless a POST is
\* answered with an error: every task gets its slot and completes.
C20_SlotsReleasedAndProgress ==
    /\ [](\A r \in DOMAIN runs :
            (Ended(runs[r]) /\ runs[r].tmp_created) =>
                /\ runs[r].sem = SemaphoreBound
                /\ Posting(runs[r]) = {})
    /\ [](\A r \in DOMAIN runs :
            runs[r].pc = "embed" =>
                runs[r].sem + Cardinality(Posting(runs[r])) = SemaphoreBound)
    /\ ((EmbedRun.pc = "embed") ~> (EmbedRun.pc = "read" \/ Raised(EmbedRun)))

\* a run with more tasks than slots has published
C20_Witness ==
    /\ EmbedRun.pc = "done"
    /\ Cardinality({i \in DOMAIN EmbedRun.jobs : EmbedRun.jobs[i] = "done"})
          > SemaphoreBound
    /\ EmbedRun.sem = SemaphoreBound

\* C14: a chunk run in which split raised has not called push_to_hub, and
\* the chunked dataset published before it is still the current one; so it
\* is whenever the strategy name is unknown and there is a record to split;
\* no chunk run calls push_to_hub more than once.
C14_NoPublishWhenSplitRaises ==
    \A r \in DOMAIN runs :
        /\ runs[r].chunk_pushes <= 1
        /\ runs[r].err = "split" =>
              (runs[r].chunk_pushes = 0 /\ hub_chunked = PreviousChunked)
        /\ (chunk_config.strategy \notin {"recursive", "sequence", "constant"}
            /\ input_repo # <<>>)
              => (runs[r].chunk_pushes = 0 /\ hub_chunked = PreviousChunked)

\* a chunk run failed by the unbound split of an unknown strategy
C14_Witness ==
    \E r \in DOMAIN runs :
        /\ runs[r].pc = "failed"
        /\ runs[r].err = "split"
        /\ chunk_config.strategy = "bogus"
        /\ hub_chunked = PreviousChunked

\* the chunk run has published
ChunkRunDone == runs[1].pc = "done" /\ runs[1].chunk_pushes = 1

IsNonEmpty(chunk) == chunk # <<>>

\* the non-empty substrings split returns for record i
Kept(i) == SelectSeq(split(chunk_config, input_repo[i]), IsNonEmpty)

\* how many chunks the records before record i give
RECURSIVE Offset(_)
Offset(i) == IF i <= 1 THEN 0 ELSE Offset(i - 1) + Len(Kept(i - 1))

\* C15: the dataset a chunk run publishes holds exactly the non-empty
\* substrings split returns for each record, in record order and in split
\* order: as many as the records' counts add up to, none empty, none for a
\* record whose text is empty; ["ab", "", "cd"] at constant length 1 gives
\* ["a", "b", "c", "d"].
C15_GeneratorOutput ==
    ChunkRunDone =>
        /\ Len(hub_chunked) = Offset(Len(input_repo) + 1)
        /\ \A k \in DOMAIN hub_chunked : hub_chunked[k] # <<>>
        /\ \A i \in DOMAIN input_repo :
              /\ input_repo[i] = <<>> => Len(Kept(i)) = 0
              /\ \A j \in 1..Len(Kept(i)) : hub_chunked[Offset(i) + j] = Kept(i)[j]
        /\ (input_repo = ScenarioInput /\ chunk_config = ScenarioConfig)
              => hub_chunked = << <<"a">>, <<"b">>, <<"c">>, <<"d">> >>

\* the scenario's input has been chunked and published
C15_Witness ==
    /\ ChunkRunDone
    /\ input_repo = ScenarioInput
    /\ chunk_config = ScenarioConfig
    /\ Len(hub_chunked) = 4

RECURSIVE Concat(_)
Concat(chunks) == IF chunks = <<>> THEN <<>> ELSE Head(chunks) \o Concat(Tail(chunks))

\* C16: for a text T and a chunk length L >= 1 the constant splitter gives
\* ceil(len(T)/L) chunks that concatenate to T, each but the last of length
\* L, the last of length 1..L.
C16_ConstantSplit ==
    (chunk_config.strategy = "constant" /\ chunk_config.chunk_len >= 1) =>
        \A i \in DOMAIN input_repo :
            LET T == input_repo[i]
                L == chunk_config.chunk_len
                c == const_splitter(T, L)
                n == Len(c)
            IN  /\ n * L >= Len(T)
                /\ n > 0 => (n - 1) * L < Len(T)
                /\ Concat(c) = T
                /\ \A k \in 1..(n - 1) : Len(c[k]) = L
                /\ n > 0 => (Len(c[n]) >= 1 /\ Len(c[n]) <= L)

\* a text of 3 characters was published as a chunk of 2 and a chunk of 1
C16_Witness ==
    /\ ChunkRunDone
    /\ chunk_config.strategy = "constant"
    /\ chunk_config.chunk_len = 2
    /\ Len(input_repo) = 1
    /\ Len(input_repo[1]) = 3
    /\ Len(hub_chunked) = 2
    /\ Len(hub_chunked[1]) = 2
    /\ Len(hub_chunked[2]) = 1

\* the separator S occurs in the text T
Occurs(S, T) ==
    \E i \in 1..Len(T) :
        /\ i + Len(S) - 1 <= Len(T)
        /\ \A k \in 1..Len(S) : T[i + k - 1] = S[k]

\* C17: for a text T and a non-empty separator S that does not occur in T
\* the sequence splitter gives [T].
C17_SequenceSplitNoSeparator ==
    (chunk_config.strategy = "sequence" /\ chunk_config.split_seq # <<>>) =>
        \A i \in DOMAIN input_repo :
            ~Occurs(chunk_config.split_seq, input_repo[i]) =>
                seq_splitter(input_repo[i], chunk_config.split_seq)
                    = <<input_repo[i]>>

\* a text with one "." was split at ".." and published whole
C17_Witness ==
    /\ ChunkRunDone
    /\ chunk_config.strategy = "sequence"
    /\ chunk_config.split_seq = <<".", ".">>
    /\ input_repo = << <<"a", ".", "a">> >>
    /\ hub_chunked = input_repo

HasTask(run, fn) == \E k \in DOMAIN run.tasks : run.tasks[k].fn = fn

\* C13: in the jobs of one trigger the embed job probes, loads and
\* publishes only after the chunk job of that trigger has published, and
\* the version it loads is the one that chunk job made or a later one.
C13_EmbedAfterChunk ==
    \A r \in DOMAIN runs :
        (HasTask(runs[r], "chunk_dataset") /\ HasTask(runs[r], "embed_dataset")) =>
            /\ runs[r].sha \in seen_Sha
            /\ (runs[r].pc \in {"probe", "load", "open", "embed", "read", "push"}
                \/ runs[r].ready \/ runs[r].n_get > 0 \/ runs[r].loaded)
                  => (runs[r].chunk_pushes = 1 /\ runs[r].chunk_version >= 1)
            /\ runs[r].loaded => runs[r].loaded_version >= runs[r].chunk_version
            /\ runs[r].embed_pushes > 0 => runs[r].loaded

\* an embed job has published after loading the version that the chunk job
\* of a later trigger made
C13_Witness ==
    \E r \in DOMAIN runs :
        /\ runs[r].pc = "done"
        /\ runs[r].embed_pushes = 1
        /\ runs[r].chunk_version = 1
        /\ runs[r].loaded_version = 2

\* C19: the headSha of every scheduled job group is in the seen set, the
\* seen set never loses an element, and a notification whose headSha has a
\* failed job group is answered processed=False and schedules nothing.
C19_FailedRunNotRetriggered ==
    /\ [](\A r \in DOMAIN runs : runs[r].sha \in seen_Sha)
    /\ [][/\ seen_Sha \subseteq seen_Sha'
          /\ (/\ n_notif' = n_notif + 1
              /\ \E r \in DOMAIN runs :
                    /\ runs[r].sha = response'.payload.headSha
                    /\ runs[r].pc = "failed")
                => (~response'.processed /\ runs' = runs)
       ]_vars

\* an update notification was refused for a headSha whose embed job failed
C19_Witness ==
    /\ ~response.processed
    /\ n_notif >= 2
    /\ response.payload.action = "update"
    /\ \E r \in DOMAIN runs :
          /\ runs[r].sha = response.payload.headSha
          /\ runs[r].pc = "failed"
          /\ runs[r].err = "task"

====
